---- MODULE Spec2Model ----
(***************************************************************************)
(* Enrichment-and-retention engine of the tweet index (src/processor.py,   *)
(* driven by src/main.py).  The index is the state; the three public       *)
(* methods of Enriche are the actions.  Execution is single-threaded and   *)
(* synchronous, so each method is one atomic action whose store faults     *)
(* (scan failure, per-operation bulk failure, bulk transport exception,    *)
(* delete-by-query failure) are inputs chosen by \E.                       *)
(*                                                                         *)
(* Conventions: an optional field is <<>> when absent and <<v>> when       *)
(* present.  Scores are integers in units of 0.0001 (VADER rounds the      *)
(* compound score to four decimals), so 0.05 is 500.  A text is the        *)
(* sequence of its word tokens as written; "" is the empty sequence.       *)
(* Writes are taken to be visible to the next operation; whether a refresh *)
(* call followed them is recorded in last.refreshes.                       *)
(***************************************************************************)
EXTENDS Integers, Sequences, FiniteSets, TLC

VARIABLES
  store,         \* the index: live document id -> document
  before,        \* the index as it was when the last operation was entered
  weapons_list,  \* Enriche.weapons_list, loaded at construction
  last,          \* what the last operation did (calls, operations, outcome)
  pc,            \* "idle": the caller may call; "crashed": an exception escaped
  probe          \* input/output pair of the label function (SpecLabel only)

vars == <<store, before, weapons_list, last, pc, probe>>

\* ---------------------------------------------------------------- bounds
MaxDocs == 2        \* documents in the corpus
MaxBatch == 2       \* largest batch_size argument tried
ChunkSize == 1      \* operations per bulk chunk (500 in the code, scaled
                    \* down with the corpus so that a pass has several chunks)
MaxScore == 10000   \* 1.0 in score units: compound is in [-1, 1]

\* --------------------------------------------------------------- thresholds
PositiveThreshold == 500   \* 0.05
NegativeThreshold == -500  \* -0.05

\* --------------------------------------------------------------- options
None == <<>>
Some(x) == <<x>>
IsSome(o) == o /= <<>>
Get(o) == o[1]

Range(s) == {s[i] : i \in 1..Len(s)}

RECURSIVE SetToSeq(_)
\* list(found): some order of the set's elements
SetToSeq(S) ==
  IF S = {} THEN <<>>
  ELSE LET x == CHOOSE y \in S : TRUE IN <<x>> \o SetToSeq(S \ {x})

Min(a, b) == IF a <= b THEN a ELSE b

\* --------------------------------------------------------- string helpers
\* str.strip() on the strings the model uses
Strip(s) ==
  CASE s = "Knife " -> "Knife"
    [] s = " " -> ""
    [] OTHER -> s

\* str.lower() on the strings the model uses
Lower(s) ==
  CASE s = "Knife" -> "knife"
    [] s = "KNIFE" -> "knife"
    [] s = "Machine" -> "machine"
    [] s = "Gun" -> "gun"
    [] OTHER -> s

\* the store's analyzer on a vocabulary phrase: lowercase word tokens
AnalyzePhrase(term) ==
  CASE term = "machine gun" -> <<"machine", "gun">>
    [] term = "" -> <<>>
    [] OTHER -> <<Lower(term)>>

\* the store's analyzer on a text: lowercase word tokens, whitespace dropped
AnalyzeText(text) ==
  LET words == SelectSeq(text, LAMBDA t : Strip(t) /= "")
  IN [i \in 1..Len(words) |-> Lower(words[i])]

\* ------------------------------------------------------------- the corpus
NoText == None                        \* no text field
EmptyText == Some(<<>>)               \* ""
BlankText == Some(<<" ">>)            \* whitespace only
KnifeText == Some(<<"KNIFE", "Knife">>)   \* "He had a KNIFE and a Knife"
GunText == Some(<<"Machine", "Gun">>)

\* a document as ingested: no enrichment field yet
NewDoc(text, flag) ==
  [ text |-> text, Antisemitic |-> Some(flag), weapons_found |-> None,
    sentiment_score |-> None, sentiment_label |-> None ]

DocIds == 1..MaxDocs

\* the records ingestion may have stored.  The flag is varied on the text
\* that comes to bear a neutral label and never weapons, the record that
\* retention selects or spares by its flag alone.
Ingested ==
  { NewDoc(NoText, 0), NewDoc(EmptyText, 0),
    NewDoc(BlankText, 0), NewDoc(BlankText, 1),
    NewDoc(KnifeText, 0), NewDoc(GunText, 0) }

\* the weapons file: None when missing, else its lines
WeaponFiles ==
  { None,
    Some(<<>>),
    Some(<<"Knife ", "", "knife", "machine gun">>) }

\* ------------------------------------------------------ vocabulary loader
\* _load_weapons: [line.strip().lower() for line in f if line.strip()];
\* a missing file gives []
_load_weapons(file) ==
  IF ~IsSome(file) THEN <<>>
  ELSE LET kept == SelectSeq(Get(file), LAMBDA line : Strip(line) /= "")
       IN [i \in 1..Len(kept) |-> Lower(Strip(kept[i]))]

\* ------------------------------------------------------- sentiment scorer
\* SentimentIntensityAnalyzer.polarity_scores(text)['compound'] for the
\* texts of the model (the lexicon is external: one score per text)
VaderCompound(text) ==
  CASE text = <<"KNIFE", "Knife">> -> PositiveThreshold
    [] text = <<"Machine", "Gun">> -> NegativeThreshold
    [] OTHER -> 0

\* not text.strip(): every token is whitespace
IsBlank(text) == \A i \in 1..Len(text) : Strip(text[i]) = ""

_get_sentiment_score(text) ==
  IF IsBlank(text) THEN 0 ELSE VaderCompound(text)

_get_sentiment_label_strict(score) ==
  IF score > PositiveThreshold THEN "positive"
  ELSE IF score < NegativeThreshold THEN "negative"
  ELSE "neutral"

_get_sentiment_label(score) ==
  IF score >= PositiveThreshold THEN "positive"
  ELSE IF score <= NegativeThreshold THEN "negative"
  ELSE "neutral"

\* ------------------------------------------------------------ the store
\* {"exists": {"field": f}}: the field holds a value; an empty array does not
\* count
Exists(doc, f) ==
  /\ IsSome(doc[f])
  /\ (f = "weapons_found" => Get(doc[f]) /= <<>>)

\* {"term": {f: v}}
Term(doc, f, v) == IsSome(doc[f]) /\ Get(doc[f]) = v

\* {"match_phrase": {"text": term}}: the phrase's tokens occur contiguously
PhraseAt(words, phrase, j) ==
  /\ Len(phrase) > 0
  /\ j + Len(phrase) - 1 <= Len(words)
  /\ \A k \in 1..Len(phrase) : words[j + k - 1] = phrase[k]

MatchPhrase(doc, term) ==
  /\ IsSome(doc.text)
  /\ \E j \in 1..Len(AnalyzeText(Get(doc.text))) :
       PhraseAt(AnalyzeText(Get(doc.text)), AnalyzePhrase(term), j)

\* ids in scan order
RECURSIVE SortedIds(_)
SortedIds(S) ==
  IF S = {} THEN <<>>
  ELSE LET m == CHOOSE x \in S : \A y \in S : x <= y
       IN <<m>> \o SortedIds(S \ {m})

\* helpers.scan over the documents a query selects: their ids in scan order
Scan(selected) == SortedIds(selected)

\* helpers.scan fetches the hits in batches of batch_size: the number of
\* batch requests a full traversal of n hits makes
NBatches(n, batch_size) ==
  IF n = 0 THEN 1 ELSE (n + batch_size - 1) \div batch_size

\* an index operation in place of the partial update: the given fields become
\* the whole document
ApplyUpdateReplace(doc, fields) ==
  [f \in DOMAIN doc |-> IF f \in DOMAIN fields THEN Some(fields[f]) ELSE None]

\* a partial update merges the given fields into the document
ApplyUpdate(doc, fields) ==
  [f \in DOMAIN doc |-> IF f \in DOMAIN fields THEN Some(fields[f]) ELSE doc[f]]

\* helpers.bulk(actions, chunk_size=500, raise_on_error=False)
NChunks(n) == (n + ChunkSize - 1) \div ChunkSize
ChunkOf(i) == (i + ChunkSize - 1) \div ChunkSize

\* helpers.bulk with raise_on_error=True (the helper's default): the chunk
\* that raises is the first one holding a failed item or hit by a transport
\* exception (0: none raises)
RaisingChunkOnError(failSet, raiseAt) ==
  LET firstFailed ==
        IF failSet = {} THEN 0
        ELSE ChunkOf(CHOOSE i \in failSet : \A j \in failSet : i <= j)
  IN IF raiseAt = 0 THEN firstFailed
     ELSE IF firstFailed = 0 THEN raiseAt
     ELSE Min(firstFailed, raiseAt)

\* raise_on_error=False: failed items are collected, and only a transport
\* exception (at chunk raiseAt; 0: none) raises
RaisingChunk(failSet, raiseAt) == raiseAt

\* failSet: the positions of the operations the store rejects
Bulk(st, actions, failSet, raiseAt) ==
  LET rc == RaisingChunk(failSet, raiseAt)
      last_chunk == IF rc = 0 THEN NChunks(Len(actions)) ELSE rc
      ok == {i \in 1..Len(actions) : ChunkOf(i) <= last_chunk /\ i \notin failSet}
      touched(d) == {i \in ok : actions[i].id = d}
  IN [ store |->
         [d \in DOMAIN st |->
            IF touched(d) = {} THEN st[d]
            ELSE ApplyUpdate(st[d], actions[CHOOSE i \in touched(d) : TRUE].doc)],
       raised |-> rc /= 0,
       chunks |-> last_chunk,
       success |-> Cardinality(ok),
       failed |-> SelectSeq([i \in 1..Len(actions) |-> actions[i].id],
                            LAMBDA d : \E i \in failSet : actions[i].id = d) ]

\* ------------------------------------------------------- weapon extractor
\* the selection of add_weapons_to_docs: any vocabulary term as a phrase
WeaponsQuery(doc) ==
  \E i \in 1..Len(weapons_list) : MatchPhrase(doc, weapons_list[i])

\* hit["highlight"]["text"]: number_of_fragments=0 returns the whole field as
\* one fragment, each matched token wrapped in <weapon>..</weapon>.  A
\* fragment is the sequence of the text's tokens, each tagged or not.
Highlight(doc) ==
  LET text == Get(doc.text)
      pos == SelectSeq([i \in 1..Len(text) |-> i],
                       LAMBDA i : Strip(text[i]) /= "")
      words == AnalyzeText(text)
      inPhrase(k) ==
        \E w \in 1..Len(weapons_list) :
          LET phrase == AnalyzePhrase(weapons_list[w])
          IN \E j \in 1..Len(words) :
               PhraseAt(words, phrase, j) /\ j <= k /\ k < j + Len(phrase)
      tagged(i) == \E k \in 1..Len(pos) : pos[k] = i /\ inPhrase(k)
  IN << [i \in 1..Len(text) |-> [tok |-> text[i], tagged |-> tagged(i)]] >>

\* re.findall(r'<weapon>(.*?)</weapon>', fragment): the tagged tokens
FindAll(fragment) ==
  LET hl == SelectSeq(fragment, LAMBDA t : t.tagged)
  IN [i \in 1..Len(hl) |-> hl[i].tok]

RECURSIVE AllMatches(_)
AllMatches(fragments) ==
  IF fragments = <<>> THEN <<>>
  ELSE FindAll(Head(fragments)) \o AllMatches(Tail(fragments))

\* next((w for w in self.weapons_list if w == match_clean), None), truthy
MatchedWeapon(match_clean) ==
  match_clean /= "" /\ match_clean \in Range(weapons_list)

\* the extraction with a list in place of the set: repeats are kept
_extract_weapons_as_list(fragments) ==
  LET clean == [i \in 1..Len(AllMatches(fragments)) |->
                  Lower(Strip(AllMatches(fragments)[i]))]
  IN SelectSeq(clean, MatchedWeapon)

_extract_weapons_from_highlight(fragments) ==
  LET matches == AllMatches(fragments)
      found == {Lower(Strip(matches[i])) : i \in 1..Len(matches)}
  IN SetToSeq({w \in found : MatchedWeapon(w)})

\* "highlight" in hit and "text" in hit["highlight"]
HasHighlight(doc) == \E i \in 1..Len(Highlight(doc)[1]) : Highlight(doc)[1][i].tagged

\* if weapons: only a non-empty extraction is forwarded
KeepWeapons(weapons) == weapons /= <<>>

\* docs_to_update and actions of add_weapons_to_docs
WeaponsActions(st, hits) ==
  LET found(d) == _extract_weapons_from_highlight(Highlight(st[d]))
      kept == SelectSeq(hits, LAMBDA d : HasHighlight(st[d]) /\ KeepWeapons(found(d)))
  IN [i \in 1..Len(kept) |->
        [id |-> kept[i], doc |-> [weapons_found |-> found(kept[i])]]]

\* if not self.weapons_list: return
NeverSkip == FALSE
SkipWeapons == weapons_list = <<>>

\* ---------------------------------------------------------- sentiment pass
\* the selection of add_sentiment_to_docs with the must_not clause left out
SentimentQueryAll(doc) == Exists(doc, "text")

\* must: exists text; must_not: exists sentiment_label
SentimentQuery(doc) ==
  Exists(doc, "text") /\ ~Exists(doc, "sentiment_label")

\* the partial document with the score left out
LabelOnly(score, label) == [sentiment_label |-> label]

\* the partial document of a sentiment update
SentimentDoc(score, label) ==
  [sentiment_score |-> score, sentiment_label |-> label]

\* docs_to_update and actions of add_sentiment_to_docs; "if text" skips ""
SentimentActions(st, hits) ==
  LET text(d) == Get(st[d].text)
      score(d) == _get_sentiment_score(text(d))
      kept == SelectSeq(hits, LAMBDA d : text(d) /= <<>>)
  IN [i \in 1..Len(kept) |->
        [id |-> kept[i],
         doc |-> SentimentDoc(score(kept[i]), _get_sentiment_label(score(kept[i])))]]

\* --------------------------------------------------------- retention filter
\* the first query of clean_non_antisemitic (built, never sent)
query(doc) ==
  /\ Term(doc, "Antisemitic", 0)
  /\ Term(doc, "sentiment_label", "positive")
  /\ ~Exists(doc, "weapons_found")

full_query(doc) ==
  /\ Term(doc, "Antisemitic", 0)
  /\ (Term(doc, "sentiment_label", "positive") \/ Term(doc, "sentiment_label", "neutral"))
  /\ ~Exists(doc, "weapons_found")

\* the store's delete-by-query: removes every document the predicate selects
DeleteByQuery(st, selected) == [d \in DOMAIN st \ selected |-> st[d]]

\* ------------------------------------------------------------- operations
\* an operation that completes without a failure of any kind
Clean(l) == l.exc = "none" /\ l.failed = <<>>

\* the record of an operation, before it does anything
Summary(op) ==
  [ op |-> op,
    scanned |-> FALSE,    \* helpers.scan was called
    hits |-> <<>>,        \* ids the scan loop received
    ops |-> <<>>,         \* update operations built
    bulkCalls |-> 0,      \* calls of helpers.bulk
    chunks |-> 0,         \* chunks submitted
    success |-> 0,        \* operations the store applied
    failed |-> <<>>,      \* ids of the operations the store rejected
    rejected |-> 0,       \* operations the store rejected
    transport |-> FALSE,  \* a chunk met a transport exception
    refreshes |-> 0,      \* calls of indices.refresh
    deleteCalls |-> 0,    \* calls of delete_by_query
    exc |-> "none",       \* the store call that raised
    raised |-> FALSE,     \* an exception left the method
    ret |-> None,         \* the value returned: None is Python's None
    logs |-> {},          \* levels above info that were logged
    prev |-> IF Clean(last) /\ last.op \in {"weapons", "sentiment"}
             THEN last.op ELSE "other" ]  \* the pass that completed just before

\* the scan loop outside any try: the exception leaves the method
ScanRaises(op, hits, batch_size, scanFault) ==
  /\ scanFault \in 1..NBatches(Len(hits), batch_size)
  /\ store' = store
  /\ last' = [Summary(op) EXCEPT
                !.scanned = TRUE,
                !.hits = SubSeq(hits, 1, (scanFault - 1) * batch_size),
                !.exc = "scan", !.raised = TRUE]
  /\ pc' = "crashed"

\* helpers.scan raises on batch request scanFault, inside the for loop: the
\* except clause logs and the method returns
ScanFails(op, hits, batch_size, scanFault) ==
  /\ scanFault \in 1..NBatches(Len(hits), batch_size)
  /\ store' = store
  /\ last' = [Summary(op) EXCEPT
                !.scanned = TRUE,
                !.hits = SubSeq(hits, 1, (scanFault - 1) * batch_size),
                !.exc = "scan", !.logs = {"error"}]
  /\ pc' = "idle"

\* if not docs_to_update: return
NothingToUpdate(op, hits) ==
  /\ store' = store
  /\ last' = [Summary(op) EXCEPT !.scanned = TRUE, !.hits = hits]
  /\ pc' = "idle"

\* helpers.bulk, then indices.refresh unless bulk raised (except: log, return)
BulkWrite(op, hits, actions, failSet, raiseAt, warn) ==
  LET r == Bulk(store, actions, failSet, raiseAt)
  IN /\ store' = r.store
     /\ last' =
          IF r.raised
          THEN [Summary(op) EXCEPT !.scanned = TRUE, !.hits = hits,
                  !.ops = actions, !.bulkCalls = 1, !.chunks = r.chunks,
                  !.rejected = Cardinality(failSet), !.transport = raiseAt /= 0,
                  !.exc = "bulk", !.logs = {"error"}]
          ELSE [Summary(op) EXCEPT !.scanned = TRUE, !.hits = hits,
                  !.ops = actions, !.bulkCalls = 1, !.chunks = r.chunks,
                  !.success = r.success, !.failed = r.failed,
                  !.rejected = Cardinality(failSet), !.refreshes = 1,
                  !.logs = IF warn /\ r.failed /= <<>> THEN {"warning"} ELSE {}]
     /\ pc' = "idle"

\* the faults a bulk call over n operations can meet: a transport exception
\* at chunk raiseAt (0: none) and the rejected operations among those sent
BulkFaults(n) ==
  {f \in [raiseAt : 0..NChunks(n), failSet : SUBSET (1..n)] :
     \A i \in f.failSet :
       ChunkOf(i) <= (IF f.raiseAt = 0 THEN NChunks(n) ELSE f.raiseAt)}

\* the try block shared by both passes: scan, build, bulk, refresh
RunPass(op, hits, actions, warn) ==
  \/ \E batch_size \in 1..MaxBatch, scanFault \in 1..MaxDocs :
       ScanFails(op, hits, batch_size, scanFault)
  \/ /\ actions = <<>>
     /\ NothingToUpdate(op, hits)
  \/ /\ actions /= <<>>
     /\ \E f \in BulkFaults(Len(actions)) :
          BulkWrite(op, hits, actions, f.failSet, f.raiseAt, warn)

add_weapons_to_docs ==
  /\ pc = "idle"
  /\ IF SkipWeapons
     THEN /\ store' = store
          /\ last' = [Summary("weapons") EXCEPT !.logs = {"warning"}]
          /\ pc' = "idle"
     ELSE LET hits == Scan({d \in DOMAIN store : WeaponsQuery(store[d])})
              actions == WeaponsActions(store, hits)
          IN RunPass("weapons", hits, actions, TRUE)
  /\ before' = store
  /\ UNCHANGED <<weapons_list, probe>>

add_sentiment_to_docs ==
  /\ pc = "idle"
  /\ LET hits == Scan({d \in DOMAIN store : SentimentQuery(store[d])})
         actions == SentimentActions(store, hits)
     IN RunPass("sentiment", hits, actions, FALSE)
  /\ before' = store
  /\ UNCHANGED <<weapons_list, probe>>

\* the store add_weapons_to_docs leaves when scan and bulk meet no fault
WeaponsResult(st) ==
  IF SkipWeapons THEN st
  ELSE LET hits == Scan({d \in DOMAIN st : WeaponsQuery(st[d])})
       IN Bulk(st, WeaponsActions(st, hits), {}, 0).store

\* the store add_sentiment_to_docs leaves when scan and bulk meet no fault
SentimentResult(st) ==
  LET hits == Scan({d \in DOMAIN st : SentimentQuery(st[d])})
  IN Bulk(st, SentimentActions(st, hits), {}, 0).store

\* deleted = self.dal.delete_by_query(full_query), outside any try, and no
\* return statement.  fails: the call raises (the DAL of
\* src/Elastic_service/DAL.py defines no delete_by_query, so there it always
\* does)
clean_non_antisemitic(fails) ==
  /\ pc = "idle"
  /\ IF fails
     THEN /\ store' = store
          /\ last' = [Summary("clean") EXCEPT !.deleteCalls = 1, !.exc = "delete",
                                               !.raised = TRUE]
          /\ pc' = "crashed"
     ELSE /\ store' = DeleteByQuery(store, {d \in DOMAIN store : full_query(store[d])})
          /\ last' = [Summary("clean") EXCEPT !.deleteCalls = 1]
          /\ pc' = "idle"
  /\ before' = store
  /\ UNCHANGED <<weapons_list, probe>>

\* ------------------------------------------------------- the label function
\* label = self._get_sentiment_label(score), on one score
LabelScore ==
  /\ probe.label = None
  /\ probe' = [probe EXCEPT !.label = Some(_get_sentiment_label(probe.score))]
  /\ UNCHANGED <<store, before, weapons_list, last, pc>>

\* ---------------------------------------------------------- specifications
NoProbe == [score |-> 0, label |-> None]

InitLast ==
  [ op |-> "init", scanned |-> FALSE, hits |-> <<>>, ops |-> <<>>, bulkCalls |-> 0,
    chunks |-> 0, success |-> 0, failed |-> <<>>, rejected |-> 0,
    transport |-> FALSE, refreshes |-> 0,
    deleteCalls |-> 0, exc |-> "none", raised |-> FALSE,
    ret |-> None, logs |-> {}, prev |-> "other" ]

\* after Enriche(...) is constructed over the ingested corpus
Init ==
  /\ store \in [DocIds -> Ingested]
  /\ before = store
  /\ \E file \in WeaponFiles : weapons_list = _load_weapons(file)
  /\ last = InitLast
  /\ pc = "idle"
  /\ probe = NoProbe

Next ==
  \/ add_weapons_to_docs
  \/ add_sentiment_to_docs
  \/ \E fails \in BOOLEAN : clean_non_antisemitic(fails)

Spec == Init /\ [][Next]_vars

\* the label function alone, over every score of [-1, 1]
InitLabel ==
  /\ store = [d \in DocIds |-> NewDoc(None, 0)]
  /\ before = store
  /\ weapons_list = <<>>
  /\ last = InitLast
  /\ pc = "idle"
  /\ probe \in [score : (-MaxScore)..MaxScore, label : {None}]

NextLabel == LabelScore

SpecLabel == InitLabel /\ [][NextLabel]_vars

\* ------------------------------------------------------------------ claims
\* the label the fixed thresholds give a score
ThresholdLabel(score) ==
  IF score >= 500 THEN "positive"
  ELSE IF score <= -500 THEN "negative"
  ELSE "neutral"

\* C1: when add_sentiment_to_docs runs right after a run of itself that
\* completed with every bulk write applied, it submits no update operation
\* and selects no record that already bears sentiment_label.
C1_SentimentRerunSubmitsNothing ==
  (last.op = "sentiment" /\ last.prev = "sentiment") =>
    /\ last.ops = <<>>
    /\ \A i \in 1..Len(last.hits) : ~IsSome(before[last.hits[i]].sentiment_label)

\* a second run that completes, over a corpus where the first run labelled a
\* record and left a record with text "" unlabelled (selected again, unscored)
C1_Witness ==
  /\ last.op = "sentiment" /\ last.prev = "sentiment" /\ last.exc = "none"
  /\ last.hits /= <<>>
  /\ \E d \in DOMAIN before : IsSome(before[d].sentiment_label)

\* eligibility for retention-deletion as the data model states it
Eligible(doc) ==
  /\ doc.Antisemitic = Some(0)
  /\ doc.sentiment_label \in {Some("positive"), Some("neutral")}
  /\ doc.weapons_found \in {None, Some(<<>>)}

\* C2: a successful retention run removes exactly the records that were
\* eligible when it ran, and no operation ever removes a record that is not
\* eligible (one with weapons, flag 1, label negative or no label).
C2_RetentionRemovesExactlyEligible ==
  /\ DOMAIN store \subseteq DOMAIN before
  /\ \A d \in DOMAIN before \ DOMAIN store : Eligible(before[d])
  /\ (last.op = "clean" /\ last.exc = "none") =>
       DOMAIN before \ DOMAIN store = {d \in DOMAIN before : Eligible(before[d])}

\* after enrichment, a retention run deletes a neutral record and keeps a
\* flag-0 neutral or positive record that bears weapons
C2_Witness ==
  /\ last.op = "clean" /\ last.exc = "none"
  /\ \E d \in DOMAIN before \ DOMAIN store :
       before[d].sentiment_label = Some("neutral")
  /\ \E d \in DOMAIN store :
       /\ store[d].Antisemitic = Some(0)
       /\ store[d].sentiment_label \in {Some("positive"), Some("neutral")}
       /\ IsSome(store[d].weapons_found)

\* C3: clean_non_antisemitic issues one delete-by-query and returns the
\* number of deleted records, returns 0 with a diagnostic when the call
\* fails, and never raises.
C3_RetentionReturnsCount ==
  last.op = "clean" =>
    /\ last.deleteCalls = 1
    /\ ~last.raised /\ pc = "idle"
    /\ last.exc = "none" =>
         last.ret = Some(Cardinality(DOMAIN before \ DOMAIN store))
    /\ last.exc = "delete" =>
         (last.ret = Some(0) /\ last.logs /= {})

\* C4: _get_sentiment_label(s) is positive iff s >= 0.05, negative iff
\* s <= -0.05, neutral otherwise, both thresholds inclusive.
C4_LabelThresholds ==
  IsSome(probe.label) =>
    /\ Get(probe.label) = ThresholdLabel(probe.score)
    /\ probe.score = 500 => Get(probe.label) = "positive"
    /\ probe.score = -500 => Get(probe.label) = "negative"
    /\ probe.score = -499 => Get(probe.label) = "neutral"
    /\ probe.score = 0 => Get(probe.label) = "neutral"

\* the score 0.05 itself has been labelled
C4_Witness == probe.score = 500 /\ probe.label = Some("positive")

\* C5: weapons_found, where written, is non-empty, holds only vocabulary
\* terms and holds each at most once.
C5_WeaponsFoundCanonical ==
  \A d \in DOMAIN store :
    IsSome(store[d].weapons_found) =>
      LET w == Get(store[d].weapons_found)
      IN /\ w /= <<>>
         /\ \A i \in 1..Len(w) : w[i] \in Range(weapons_list)
         /\ \A i, j \in 1..Len(w) : i /= j => w[i] /= w[j]

\* "KNIFE ... Knife" under a vocabulary that lists knife twice
C5_Witness ==
  /\ \E i, j \in 1..Len(weapons_list) : i /= j /\ weapons_list[i] = weapons_list[j]
  /\ \E d \in DOMAIN store :
       /\ store[d].text = Some(<<"KNIFE", "Knife">>)
       /\ store[d].weapons_found = Some(<<"knife">>)

\* C6: with an empty vocabulary add_weapons_to_docs makes no scan, bulk or
\* refresh call, changes no record and returns without error.
C6_EmptyVocabularyNoOp ==
  (last.op = "weapons" /\ weapons_list = <<>>) =>
    /\ ~last.scanned /\ last.bulkCalls = 0 /\ last.refreshes = 0
    /\ store = before
    /\ last.exc = "none" /\ ~last.raised /\ pc = "idle"

\* the pass has run with an empty vocabulary over a corpus that has text
C6_Witness ==
  /\ last.op = "weapons" /\ weapons_list = <<>>
  /\ \E d \in DOMAIN store : store[d].text = Some(<<"KNIFE", "Knife">>)

\* C7: when operations of a chunk are rejected (and no chunk meets a
\* transport exception) the pass still submits every chunk, counts the
\* applied operations, records the rejected ones, refreshes and returns.
C7_ItemFailuresDoNotAbort ==
  (last.bulkCalls = 1 /\ ~last.transport) =>
    /\ last.exc = "none" /\ ~last.raised /\ pc = "idle"
    /\ last.chunks = NChunks(Len(last.ops))
    /\ Len(last.failed) = last.rejected
    /\ last.success + Len(last.failed) = Len(last.ops)
    /\ last.refreshes = 1

\* an operation of the first chunk was rejected, a later chunk was still
\* submitted and some operation was applied
C7_Witness ==
  /\ last.bulkCalls = 1 /\ ~last.transport
  /\ last.ops /= <<>> /\ last.ops[1].id \in Range(last.failed)
  /\ last.chunks >= 2 /\ last.success >= 1
  /\ last.refreshes = 1

\* C8: sentiment_score is present iff sentiment_label is, and the label is
\* the threshold label of the score.
C8_ScoreAndLabelTogether ==
  \A d \in DOMAIN store :
    /\ IsSome(store[d].sentiment_score) <=> IsSome(store[d].sentiment_label)
    /\ IsSome(store[d].sentiment_label) =>
         /\ IsSome(store[d].sentiment_score)
         /\ Get(store[d].sentiment_label) = ThresholdLabel(Get(store[d].sentiment_score))

\* a repeated pass after a partly failed one: one record labelled earlier,
\* one labelled now
C8_Witness ==
  /\ last.op = "sentiment" /\ last.prev = "other" /\ last.success >= 1
  /\ \E d \in DOMAIN before : IsSome(before[d].sentiment_label)
  /\ \E d \in DOMAIN store :
       ~IsSome(before[d].sentiment_label) /\ IsSome(store[d].sentiment_label)

\* C9: a pass whose scan fails, on the first batch or a later one, submits
\* no update, changes no record, logs, returns without raising and leaves
\* the caller free to run the next pass.
C9_ScanFailureAbortsPassOnly ==
  last.exc = "scan" =>
    /\ last.ops = <<>> /\ last.bulkCalls = 0
    /\ store = before
    /\ "error" \in last.logs
    /\ ~last.raised /\ pc = "idle"

\* the scan failed on a later batch, after hits that carry weapons had been
\* received
C9_Witness ==
  /\ last.op = "weapons" /\ last.exc = "scan"
  /\ last.hits /= <<>>
  /\ WeaponsActions(store, last.hits) /= <<>>
  /\ pc = "idle"

\* C10: when add_weapons_to_docs runs right after a run of itself that
\* completed with every bulk write applied, it submits no update operation
\* and selects no record that already bears weapons_found.
C10_WeaponsRerunSubmitsNothing ==
  (last.op = "weapons" /\ last.prev = "weapons" /\ weapons_list /= <<>>) =>
    /\ last.ops = <<>>
    /\ \A i \in 1..Len(last.hits) : ~IsSome(before[last.hits[i]].weapons_found)

\* C11: every enrichment pass that gets past selection calls indices.refresh
\* after its last bulk write and before it returns, on every path: also when
\* no record needs updating and when bulk writing reports or raises a failure.
C11_RefreshOnEveryPath ==
  (last.op \in {"weapons", "sentiment"} /\ last.scanned /\ last.exc /= "scan") =>
    last.refreshes = 1

\* the fields a pass must leave alone are the same in st as they were in old
SameFields(old, st, fields) ==
  /\ DOMAIN st = DOMAIN old
  /\ \A d \in DOMAIN st : \A f \in fields : st[d][f] = old[d][f]

WeaponsFrame == {"text", "Antisemitic", "sentiment_score", "sentiment_label"}
SentimentFrame == {"text", "Antisemitic", "weapons_found"}

\* C12: add_weapons_to_docs leaves id, text, flag, sentiment_score and
\* sentiment_label of every record as they were, add_sentiment_to_docs leaves
\* id, text, flag and weapons_found as they were, neither creates or deletes
\* a record (whatever faults the pass met), and from every store the two
\* passes, run to completion without a store fault, give the same store in
\* either order.
C12_PassesTouchOnlyOwnFields ==
  /\ last.op = "weapons" => SameFields(before, store, WeaponsFrame)
  /\ last.op = "sentiment" => SameFields(before, store, SentimentFrame)
  /\ SameFields(store, WeaponsResult(store), WeaponsFrame)
  /\ SameFields(store, SentimentResult(store), SentimentFrame)
  /\ SentimentResult(WeaponsResult(store)) = WeaponsResult(SentimentResult(store))

\* the sentiment pass has just labelled a record that already bore
\* weapons_found, and another record is still waiting for both passes
C12_Witness ==
  /\ last.op = "sentiment"
  /\ \E d \in DOMAIN store :
       /\ IsSome(before[d].weapons_found)
       /\ ~IsSome(before[d].sentiment_label)
       /\ IsSome(store[d].sentiment_label)
       /\ store[d].weapons_found = before[d].weapons_found
  /\ WeaponsResult(SentimentResult(store)) /= store

====
